---- MODULE Spec2Model ----
(***************************************************************************)
(* Model of three pieces of the yoastseo repository:                       *)
(*   - the schema-blocks Title instruction (Title.validate),               *)
(*   - the component gallery App (navigate, changeLanguageDirection,       *)
(*     componentDidUpdate, getContent),                                    *)
(*   - the SearchResults component (render, handleZeroResults,             *)
(*     renderNoResultsFound).                                              *)
(* Each piece has its own specification (SpecTitle, SpecApp, SpecSearch);  *)
(* the variables of the other pieces stay at their initial values.         *)
(***************************************************************************)
EXTENDS Integers, Sequences, FiniteSets, TLC

VARIABLES
    options,          \* Title: this.options (name, fieldName)
    blockInstance,    \* Title: the block instance handed to validate
    outcome,          \* Title: what the last validate call did (returned / threw)
    dirty,            \* Title: history, what was edited since the last validate: "clean", "other" (attributes
                      \*        other than the configured one) or "title" (the configured attribute)
    activeComponent,  \* App: this.state.activeComponent
    isRtl,            \* App: this.state.isRtl
    dir,              \* App: document.documentElement's dir attribute
    content,          \* App: what getContent() gave the last render
    lastNavigate,     \* App: history, the id of the last navigate call
    dirHistory,       \* App: history, the dir attribute before each of the last two toggles
    props,            \* SearchResults: this.props
    state,            \* SearchResults: this.state
    spoken,           \* SearchResults: the a11ySpeak calls of the last render pass
    output,           \* SearchResults: what the last render pass returned
    prevCount         \* SearchResults: history, the result count of the pass before the last

titleVars == <<options, blockInstance, outcome, dirty>>
appVars == <<activeComponent, isRtl, dir, content, lastNavigate, dirHistory>>
searchVars == <<props, state, spoken, output, prevCount>>
vars == <<titleVars, appVars, searchVars>>

\* The longest string the model stores in an attribute.
MaxLen == 3

(***************************************************************************)
(* JavaScript values, as far as the code looks at them.                    *)
(***************************************************************************)
Undefined == [t |-> "undefined", v |-> 0]
Null == [t |-> "null", v |-> 0]
Str(s) == [t |-> "string", v |-> s]
Num(n) == [t |-> "number", v |-> n]
Bool(b) == [t |-> "boolean", v |-> b]
Obj == [t |-> "object", v |-> 0]

\* Characters an attribute string is made of: a letter, a space and a
\* no-break space (U+00A0).
Chars == {"H", " ", "nbsp"}

\* What String.prototype.trim strips: WhiteSpace and LineTerminator.
IsWhiteSpace(c) == c \in {" ", "nbsp", "tab", "lf", "cr", "bom"}

Strings(n) == UNION {[1..k -> Chars] : k \in 0..n}

\* ToBoolean, as the && of line 38 applies it.
ToBoolean(x) ==
    CASE x.t = "undefined" -> FALSE
      [] x.t = "null" -> FALSE
      [] x.t = "boolean" -> x.v
      [] x.t = "number" -> x.v # 0
      [] x.t = "string" -> Len(x.v) > 0
      [] OTHER -> TRUE

RECURSIVE trimStart(_)
trimStart(s) ==
    IF s = <<>> THEN <<>>
    ELSE IF IsWhiteSpace(Head(s)) THEN trimStart(Tail(s))
    ELSE s

RECURSIVE trimEnd(_)
trimEnd(s) ==
    IF s = <<>> THEN <<>>
    ELSE IF IsWhiteSpace(s[Len(s)]) THEN trimEnd(SubSeq(s, 1, Len(s) - 1))
    ELSE s

\* String.prototype.trim
trim(s) == trimEnd(trimStart(s))

\* Only strings have a trim method: calling it on anything else is a TypeError.
HasTrim(x) == x.t = "string"

(***************************************************************************)
(* sprintf and the message template.                                       *)
(***************************************************************************)
\* __( "%s has been left empty.", "yoast-schema-blocks" ) with no translation loaded.
LeftEmptyTemplate ==
    <<"%", "s", " ", "h", "a", "s", " ", "b", "e", "e", "n", " ",
      "l", "e", "f", "t", " ", "e", "m", "p", "t", "y", ".">>

\* sprintf for the %s and %% conversions: each %s takes the next argument.
RECURSIVE sprintf(_, _)
sprintf(format, args) ==
    IF format = <<>> THEN <<>>
    ELSE IF Head(format) = "%" /\ Len(format) >= 2 /\ format[2] = "s" /\ args # <<>>
        THEN Head(args) \o sprintf(SubSeq(format, 3, Len(format)), Tail(args))
    ELSE IF Head(format) = "%" /\ Len(format) >= 2 /\ format[2] = "%"
        THEN <<"%">> \o sprintf(SubSeq(format, 3, Len(format)), args)
    ELSE <<Head(format)>> \o sprintf(Tail(format), args)

(***************************************************************************)
(* BlockValidationResult                                                   *)
(***************************************************************************)
\* new BlockValidationResult( clientId, name, result, blockPresence, message )
BlockValidationResult(clientId, name, status, presence, message) ==
    [clientId |-> clientId, name |-> name, status |-> status,
     presence |-> presence, message |-> message]

\* BlockValidationResult.Valid( blockInstance ): a Valid result for the block, without a message.
Valid(b) == BlockValidationResult(b.clientId, b.name, "Valid", "Unknown", Undefined)

NoResult == BlockValidationResult("", "", "", "", Undefined)
Returned(r) == [kind |-> "returned", result |-> r]
Thrown == [kind |-> "thrown", result |-> NoResult]
NotCalled == [kind |-> "none", result |-> NoResult]

(***************************************************************************)
(* Title                                                                   *)
(***************************************************************************)
AttributeKeys == {"title", "jobTitle"}
FieldNames == {<<>>, <<"T", "i", "t", "l", "e">>}
ClientIds == {"c1", "c2"}
BlockNames == {"yoast/job-title", "yoast/recipe-name"}

\* What an attribute of a block can hold; Undefined stands for a missing key.
AttributeValues ==
    {Undefined, Null, Num(0), Num(5), Bool(TRUE), Bool(FALSE), Obj}
        \cup {Str(s) : s \in Strings(MaxLen)}

\* The values the model gives an attribute other than the configured one.
OtherAttributeValues == {Undefined, Str(<<"H">>), Num(5)}

\* A slip in lines 47-51: the field label is passed as the format.
MissingRequiredAttribute_LabelAsFormat(opts, b) ==
    BlockValidationResult(b.clientId, b.name, "MissingRequiredAttribute", "Required",
                          Str(sprintf(opts.fieldName, <<LeftEmptyTemplate>>)))

\* The MissingRequiredAttribute result of lines 42-52.
MissingRequiredAttribute(opts, b) ==
    BlockValidationResult(b.clientId, b.name, "MissingRequiredAttribute", "Required",
                          Str(sprintf(LeftEmptyTemplate, <<opts.fieldName>>)))

\* A slip in line 38: the test of the trimmed title is negated.
validate_NegatedTrim(opts, b) ==
    LET title == b.attributes[opts.name]
        done(o) == [outcome |-> o, blockInstance |-> b, options |-> opts]
    IN  IF ToBoolean(title)
        THEN IF ~HasTrim(title) THEN done(Thrown)
             ELSE IF ~ToBoolean(Str(trim(title.v))) THEN done(Returned(Valid(b)))
             ELSE done(Returned(MissingRequiredAttribute(opts, b)))
        ELSE done(Returned(MissingRequiredAttribute(opts, b)))

\* A slip in line 38: the title is not trimmed.
validate_NoTrim(opts, b) ==
    LET title == b.attributes[opts.name]
        done(o) == [outcome |-> o, blockInstance |-> b, options |-> opts]
    IN  IF ToBoolean(title)
        THEN IF ~HasTrim(title) THEN done(Thrown)
             ELSE done(Returned(Valid(b)))
        ELSE done(Returned(MissingRequiredAttribute(opts, b)))

\* A slip in line 36: the title is looked up under every key, the first
\* truthy attribute wins.
validate_AnyAttribute(opts, b) ==
    LET truthy == {k \in DOMAIN b.attributes : ToBoolean(b.attributes[k])}
        title == IF ToBoolean(b.attributes[opts.name]) \/ truthy = {}
                 THEN b.attributes[opts.name]
                 ELSE b.attributes[CHOOSE k \in truthy : TRUE]
        done(o) == [outcome |-> o, blockInstance |-> b, options |-> opts]
    IN  IF ToBoolean(title)
        THEN IF ~HasTrim(title) THEN done(Thrown)
             ELSE IF ToBoolean(Str(trim(title.v))) THEN done(Returned(Valid(b)))
             ELSE done(Returned(MissingRequiredAttribute(opts, b)))
        ELSE done(Returned(MissingRequiredAttribute(opts, b)))

\* Title.validate( blockInstance ): what the call does (returns a result or
\* throws) and the block and options it leaves behind.
validate(opts, b) ==
    LET title == b.attributes[opts.name]
        done(o) == [outcome |-> o, blockInstance |-> b, options |-> opts]
    IN  IF ToBoolean(title)
        THEN IF ~HasTrim(title) THEN done(Thrown)
             ELSE IF ToBoolean(Str(trim(title.v))) THEN done(Returned(Valid(b)))
             ELSE done(Returned(MissingRequiredAttribute(opts, b)))
        ELSE done(Returned(MissingRequiredAttribute(opts, b)))

\* The validation pass of the framework calls validate on the block.
Validate ==
    LET r == validate(options, blockInstance)
    IN  /\ dirty' = "clean"
        /\ outcome' = r.outcome
        /\ blockInstance' = r.blockInstance
        /\ options' = r.options
        /\ UNCHANGED <<appVars, searchVars>>

\* The editor stores value under key in the block's attributes.
SetAttribute(key, value) ==
    /\ blockInstance' = [blockInstance EXCEPT !.attributes[key] = value]
    /\ dirty' = IF value = blockInstance.attributes[key] THEN dirty
                ELSE IF key = options.name \/ dirty = "title" THEN "title"
                ELSE "other"
    /\ UNCHANGED <<options, outcome, appVars, searchVars>>

EditTitle == \E value \in AttributeValues : SetAttribute(options.name, value)

EditOther ==
    \E key \in AttributeKeys \ {options.name} : \E value \in OtherAttributeValues :
        SetAttribute(key, value)

InitTitle ==
    /\ options \in [name : AttributeKeys, fieldName : FieldNames]
    /\ blockInstance \in [clientId : ClientIds, name : BlockNames,
                           attributes : [AttributeKeys -> {Undefined}]]
    /\ outcome = NotCalled
    /\ dirty = "clean"

(***************************************************************************)
(* App                                                                     *)
(***************************************************************************)
\* A rendered React element.
Element(type, v) == [t |-> type, v |-> v]

\* The catalog of lines 19-85.
components ==
    << [id |-> "snippet-preview", name |-> "Snippet preview", component |-> Element("SnippetEditor", 0)],
       [id |-> "wizard", name |-> "Wizard", component |-> Element("Wizard", 0)],
       [id |-> "loader", name |-> "Loader", component |-> Element("Loader", 0)],
       [id |-> "content-analysis", name |-> "Content Analysis", component |-> Element("ContentAnalysis", 0)],
       [id |-> "dashboard-widget", name |-> "Dashboard Widget", component |-> Element("DashboardWidget", 0)],
       [id |-> "help-center", name |-> "Help center", component |-> Element("HelpCenterWrapper", 0)],
       [id |-> "ui-controls", name |-> "UI Controls", component |-> Element("UIControlsWrapper", 0)],
       [id |-> "keyword-example", name |-> "Keyword", component |-> Element("KeywordExample", 0)],
       [id |-> "sidebar-collapsible", name |-> "Collapsibles", component |-> Element("SidebarCollapsibleWrapper", 0)],
       [id |-> "keyword-suggestions", name |-> "Keyword suggestions", component |-> Element("KeywordSuggestionsWrapper", 0)],
       [id |-> "buttons", name |-> "Buttons", component |-> Element("ButtonsWrapper", 0)],
       [id |-> "svg-icons", name |-> "SVG Icons", component |-> Element("SvgIconsWrapper", 0)],
       [id |-> "components-example", name |-> "Components", component |-> Element("ComponentsExample", 0)] >>

\* The ids navigate is called with: those of the menu buttons and two that
\* no catalog entry has.
NavigateIds == {components[i].id : i \in DOMAIN components} \cup {"", "no-such-component"}

\* The values the dir attribute of the document element may have at the start.
DocumentDirValues == {Undefined, Str("ltr"), Str("rtl"), Str("auto")}

\* The loop of getContent from index i (1-based here) on.
RECURSIVE getContentFrom(_, _, _)
getContentFrom(active, i, length) ==
    IF i > length THEN Undefined
    ELSE IF active = components[i].id THEN components[i].component
    ELSE getContentFrom(active, i + 1, length)

\* A slip in line 105: the loop stops one entry early.
getContent_StopsEarly(active) == getContentFrom(active, 1, Len(components) - 1)

\* App.getContent
getContent(active) == getContentFrom(active, 1, Len(components))

\* A slip in line 179: the two directions are swapped.
componentDidUpdate_Swapped(prevState, curState, d) ==
    IF prevState.isRtl # curState.isRtl
    THEN Str(IF curState.isRtl THEN "ltr" ELSE "rtl")
    ELSE d

\* A slip in line 178: the attribute is written on every update.
componentDidUpdate_Always(prevState, curState, d) ==
    Str(IF curState.isRtl THEN "rtl" ELSE "ltr")

\* App.componentDidUpdate: the dir attribute it leaves, d being the one it finds.
componentDidUpdate(prevState, curState, d) ==
    IF prevState.isRtl # curState.isRtl
    THEN Str(IF curState.isRtl THEN "rtl" ELSE "ltr")
    ELSE d

\* this.state
appState == [activeComponent |-> activeComponent, isRtl |-> isRtl]

\* this.setState( partial ) and the update it causes: render, then componentDidUpdate.
setState(newState) ==
    /\ activeComponent' = newState.activeComponent
    /\ isRtl' = newState.isRtl
    /\ content' = getContent(newState.activeComponent)
    /\ dir' = componentDidUpdate(appState, newState, dir)

\* App.navigate
navigate(id) ==
    /\ setState([appState EXCEPT !.activeComponent = id])
    /\ lastNavigate' = Str(id)
    /\ UNCHANGED <<dirHistory, titleVars, searchVars>>

Navigate == \E id \in NavigateIds : navigate(id)

\* App.changeLanguageDirection
changeLanguageDirection ==
    /\ setState([appState EXCEPT !.isRtl = ~isRtl])
    /\ dirHistory' = IF Len(dirHistory) < 2 THEN Append(dirHistory, dir)
                     ELSE <<dirHistory[2], dir>>
    /\ UNCHANGED <<lastNavigate, titleVars, searchVars>>

\* The App after construction and the first render, in a document with any dir attribute.
InitApp ==
    /\ activeComponent = "snippet-preview"
    /\ isRtl = FALSE
    /\ dir \in DocumentDirValues
    /\ content = getContent("snippet-preview")
    /\ lastNavigate = Undefined
    /\ dirHistory = <<>>

\* No App is mounted.
NoApp ==
    /\ activeComponent = "snippet-preview"
    /\ isRtl = FALSE
    /\ dir = Undefined
    /\ content = Undefined
    /\ lastNavigate = Undefined
    /\ dirHistory = <<>>

(***************************************************************************)
(* SearchResults                                                           *)
(***************************************************************************)
\* The longest result list.
MaxResults == 2

Posts ==
    { [objectID |-> "1", permalink |-> "https://kb.yoast.com/a", post_title |-> "A"],
      [objectID |-> "2", permalink |-> "https://kb.yoast.com/b", post_title |-> "B"] }

ResultLists == UNION {[1..k -> Posts] : k \in 0..MaxResults}

PropsSet == [results : ResultLists, searchString : {"", "yoast"}, handler : {"h1", "h2"}]

\* intl.formatMessage( messages.noResultsText )
noResultsText == "No results found."

\* intl.formatMessage( messages.foundResultsText, { resultsCount } )
foundResultsText(resultsCount) ==
    "Found " \o ToString(resultsCount) \o " "
        \o (IF resultsCount = 1 THEN "result" ELSE "results")

\* What a render pass gives: the element it returns and what it spoke.
Pass(out, said) == [output |-> out, spoken |-> said]

\* SearchResults.renderNoResultsFound
renderNoResultsFound(p) ==
    Pass(Element("NoResults", noResultsText), <<noResultsText>>)

\* A slip in line 312: the test of the search string is negated.
handleZeroResults_Negated(p) ==
    IF p.searchString = "" THEN renderNoResultsFound(p) ELSE Pass(Null, <<>>)

\* SearchResults.handleZeroResults
handleZeroResults(p) ==
    IF p.searchString # "" THEN renderNoResultsFound(p) ELSE Pass(Null, <<>>)

\* SearchResults.resultsToSearchItem: a row per result, its handler bound to the index.
resultsToSearchItem(p) ==
    [index \in 1..Len(p.results) |->
        [key |-> p.results[index].objectID,
         href |-> p.results[index].permalink,
         title |-> p.results[index].post_title,
         handler |-> <<p.handler, index - 1>>]]

\* A slip in line 374: the count of the results is not spoken.
render_CountNotSpoken(p) ==
    LET resultsCount == Len(p.results)
    IN  IF resultsCount <= 0 THEN handleZeroResults(p)
        ELSE Pass(Element("SearchResultsWrapper", resultsToSearchItem(p)), <<>>)

\* SearchResults.render
render(p) ==
    LET resultsCount == Len(p.results)
    IN  IF resultsCount <= 0 THEN handleZeroResults(p)
        ELSE Pass(Element("SearchResultsWrapper", resultsToSearchItem(p)),
                  <<foundResultsText(resultsCount)>>)

\* A render pass with the props p.
RenderPass(p) ==
    LET r == render(p)
    IN  /\ props' = p
        /\ output' = r.output
        /\ spoken' = r.spoken
        /\ prevCount' = IF output = Undefined THEN Undefined ELSE Num(Len(props.results))
        /\ UNCHANGED <<state, titleVars, appVars>>

\* The first render, with the props the component was constructed with.
Mount == output = Undefined /\ RenderPass(props)

\* The parent renders the component again, with props of its choice.
Update == output # Undefined /\ \E p \in PropsSet : RenderPass(p)

\* SearchResults after its constructor, not rendered yet.
InitSearch ==
    /\ props \in PropsSet
    /\ state = [results |-> props.results]
    /\ spoken = <<>>
    /\ output = Undefined
    /\ prevCount = Undefined

\* No SearchResults is mounted.
NoSearch ==
    /\ props = [results |-> <<>>, searchString |-> "", handler |-> "h1"]
    /\ state = [results |-> <<>>]
    /\ spoken = <<>>
    /\ output = Undefined
    /\ prevCount = Undefined

\* No block is being validated.
NoTitle ==
    /\ options = [name |-> "title", fieldName |-> <<>>]
    /\ blockInstance = [clientId |-> "c1", name |-> "yoast/job-title",
                        attributes |-> [k \in AttributeKeys |-> Undefined]]
    /\ outcome = NotCalled
    /\ dirty = "clean"

(***************************************************************************)
(* Specifications                                                          *)
(***************************************************************************)
NextTitle == Validate \/ EditTitle \/ EditOther
InitSpecTitle == InitTitle /\ NoApp /\ NoSearch
SpecTitle == InitSpecTitle /\ [][NextTitle]_vars

NextApp == Navigate \/ changeLanguageDirection
InitSpecApp == InitApp /\ NoTitle /\ NoSearch
SpecApp == InitSpecApp /\ [][NextApp]_vars

NextSearch == Mount \/ Update
InitSpecSearch == InitSearch /\ NoTitle /\ NoApp
SpecSearch == InitSpecSearch /\ [][NextSearch]_vars

(***************************************************************************)
(* Properties of Title.validate (SpecTitle)                                *)
(***************************************************************************)
\* The value under the configured key.
titleAttribute == blockInstance.attributes[options.name]

\* The attribute under the other key.
otherAttribute == blockInstance.attributes[CHOOSE k \in AttributeKeys : k # options.name]

\* outcome is what validate did on the block as it is now.
Validated == outcome.kind # "none" /\ dirty = "clean"

\* A string of white space only (the empty string included).
IsBlank(s) == \A i \in 1..Len(s) : IsWhiteSpace(s[i])

\* "<label> has been left empty."
LeftEmptyMessage(label) ==
    label \o <<" ", "h", "a", "s", " ", "b", "e", "e", "n", " ",
               "l", "e", "f", "t", " ", "e", "m", "p", "t", "y", ".">>

\* C1: validate returns a result with status Valid for every block whose
\* attribute under the configured key is a string with at least one character
\* that is not white space, whatever the other attributes, the clientId, the
\* block name and the fieldName are.
C1_ValidForNonBlankTitle ==
    (Validated /\ titleAttribute.t = "string" /\ ~IsBlank(titleAttribute.v))
        => (outcome.kind = "returned" /\ outcome.result.status = "Valid")

\* validate has returned for a title with white space around a letter, in a
\* block that holds another attribute.
C1_Witness ==
    /\ Validated
    /\ titleAttribute = Str(<<" ", "H", "nbsp">>)
    /\ otherAttribute # Undefined
    /\ outcome.kind = "returned"
    /\ outcome.result.status = "Valid"

\* C2: for every block whose attribute under the configured key is missing,
\* the empty string or white space only, validate returns status
\* MissingRequiredAttribute with presence Required and the non-empty message
\* "<fieldName> has been left empty.", and the result carries the clientId and
\* the name of the block.
C2_MissingForBlankTitle ==
    (Validated /\ (titleAttribute = Undefined
                      \/ (titleAttribute.t = "string" /\ IsBlank(titleAttribute.v))))
        => /\ outcome.kind = "returned"
           /\ outcome.result.status = "MissingRequiredAttribute"
           /\ outcome.result.presence = "Required"
           /\ outcome.result.message = Str(LeftEmptyMessage(options.fieldName))
           /\ Len(outcome.result.message.v) > 0
           /\ outcome.result.clientId = blockInstance.clientId
           /\ outcome.result.name = blockInstance.name

\* validate has returned MissingRequiredAttribute for a title of white space
\* only, with the field label "Title".
C2_Witness ==
    /\ Validated
    /\ titleAttribute = Str(<<" ", "nbsp">>)
    /\ options.fieldName = <<"T", "i", "t", "l", "e">>
    /\ outcome.kind = "returned"
    /\ outcome.result.status = "MissingRequiredAttribute"
    /\ outcome.result.message.v =
           <<"T", "i", "t", "l", "e", " ", "h", "a", "s", " ", "b", "e", "e", "n", " ",
             "l", "e", "f", "t", " ", "e", "m", "p", "t", "y", ".">>

\* C3: a validate call leaves the attributes of the block (every key) and the
\* options unchanged, and a call on a block that agrees with the block of the
\* call before it on clientId, name and the value under the configured key
\* does what that call did, however the other attributes differ.
C3_PureInConfiguredAttribute ==
    [][Validate =>
        /\ blockInstance' = blockInstance
        /\ options' = options
        /\ (outcome.kind # "none" /\ dirty # "title") => outcome' = outcome]_vars

\* validate has returned on a block whose other attribute is set.
C3_Witness ==
    /\ Validated
    /\ otherAttribute = Num(5)
    /\ titleAttribute = Undefined
    /\ outcome.kind = "returned"

\* C4: validate returns a result and never throws, whatever value is stored
\* under the configured key.
C4_NeverThrows == outcome.kind # "thrown"

\* C5: every result of validate meets the ValidationResult invariant: a Valid
\* result carries no message, a result of any other status carries a
\* non-empty message and a presence level, also with an empty fieldName.
C5_ResultInvariant ==
    outcome.kind = "returned" =>
        LET r == outcome.result
        IN  /\ r.status = "Valid" => r.message = Undefined
            /\ r.status # "Valid" =>
                    /\ r.message.t = "string"
                    /\ Len(r.message.v) > 0
                    /\ r.presence \in {"Required", "Recommended", "Optional"}

\* validate has returned a result that is not Valid while the fieldName is
\* the empty string.
C5_Witness ==
    /\ outcome.kind = "returned"
    /\ outcome.result.status # "Valid"
    /\ options.fieldName = <<>>

(***************************************************************************)
(* Properties of the gallery App (SpecApp)                                 *)
(***************************************************************************)
\* The dir value that goes with a direction state.
DirOf(rtl) == Str(IF rtl THEN "rtl" ELSE "ltr")

InCatalog(id) == \E i \in DOMAIN components : components[i].id = id

\* C6: after any sequence of navigate and toggle operations the active id is
\* the one of the last navigate ("snippet-preview" before any navigate), and
\* the content rendered is the widget of the catalog entry with that id, or
\* empty when the catalog has no such entry.
C6_ContentIsActiveEntry ==
    /\ activeComponent = (IF lastNavigate = Undefined THEN "snippet-preview" ELSE lastNavigate.v)
    /\ \A i \in DOMAIN components :
          components[i].id = activeComponent => content = components[i].component
    /\ ~InCatalog(activeComponent) => content = Undefined

\* navigate to the last catalog entry, after a toggle, rendered its widget.
C6_Witness ==
    /\ lastNavigate = Str("components-example")
    /\ Len(dirHistory) >= 1
    /\ content = Element("ComponentsExample", 0)

\* C7: toggling the language direction twice returns the dir attribute to the
\* value it had before the first toggle, for every initial value of the
\* attribute.
C7_TwoTogglesRestoreDir == Len(dirHistory) = 2 => dir = dirHistory[1]

\* C7 (amended): two toggles return the dir attribute to the value it had
\* before the first one exactly when that value matched the direction state
\* ("ltr" for isRtl false, "rtl" for true), as it does after any earlier
\* toggle; otherwise they leave the value that matches the direction state.
C7_TwoTogglesRestoreMatchingDir ==
    Len(dirHistory) = 2 =>
        /\ dir = DirOf(isRtl)
        /\ (dir = dirHistory[1]) <=> (dirHistory[1] = DirOf(isRtl))

\* Two toggles happened on a document that started with dir="ltr".
C7_Witness ==
    /\ Len(dirHistory) = 2
    /\ dirHistory[1] = Str("ltr")
    /\ dirHistory[2] = Str("rtl")
    /\ ~isRtl
    /\ dir = Str("ltr")

\* C10: navigate leaves isRtl and the dir attribute unchanged, a toggle leaves
\* the active id unchanged, and once a toggle has happened the dir attribute
\* is "rtl" exactly when isRtl is true and "ltr" otherwise.
C10_NavigateAndToggleDisjoint ==
    /\ [][/\ Navigate => (isRtl' = isRtl /\ dir' = dir)
          /\ changeLanguageDirection => activeComponent' = activeComponent]_vars
    /\ [](Len(dirHistory) >= 1 => dir = DirOf(isRtl))

\* A navigate after a toggle, on a document whose dir attribute was unset.
C10_Witness ==
    /\ Len(dirHistory) = 1
    /\ dirHistory[1] = Undefined
    /\ lastNavigate = Str("wizard")
    /\ activeComponent = "wizard"
    /\ isRtl
    /\ dir = Str("rtl")

(***************************************************************************)
(* Properties of SearchResults (SpecSearch)                                *)
(***************************************************************************)
\* C8: a render pass announces at most once, and a pass whose result count
\* equals that of the pass before it announces nothing.
C8_AnnouncesOnCountChangeOnly ==
    /\ Len(spoken) <= 1
    /\ (prevCount # Undefined /\ prevCount = Num(Len(props.results))) => spoken = <<>>

\* C8 (amended): a render pass announces at most once, and whether it
\* announces depends on its own props alone: it announces exactly when the
\* result list is not empty (the count) or the search string is not empty (the
\* no-results message), also when the result count is that of the pass before.
C8_AnnouncesOncePerPass ==
    output # Undefined =>
        /\ Len(spoken) <= 1
        /\ (spoken # <<>>) <=> (props.results # <<>> \/ props.searchString # "")

\* A pass with one result after a pass with one result announced the count again.
C8_Witness ==
    /\ prevCount = Num(1)
    /\ Len(props.results) = 1
    /\ spoken = <<"Found 1 result">>

\* C9: a pass with an empty result list renders the no-results message and
\* announces it, once, when the search string is not empty; it renders nothing
\* and announces nothing when the search string is empty.
C9_ZeroResults ==
    (output # Undefined /\ props.results = <<>>) =>
        IF props.searchString # ""
        THEN output = Element("NoResults", "No results found.")
             /\ spoken = <<"No results found.">>
        ELSE output = Null /\ spoken = <<>>

\* A pass with no results and a search string, after a pass with two results.
C9_Witness ==
    /\ props.results = <<>>
    /\ props.searchString = "yoast"
    /\ prevCount = Num(2)
    /\ spoken = <<"No results found.">>

====
